---- MODULE Spec2Model ----
(***************************************************************************)
(* A model of the monophonic synthesizer voice of src/src/lib.rs:          *)
(* the voice record (sample_rate, time, note, note_on), the shared         *)
(* parameter store, the MIDI event dispatcher and the render loop.         *)
(*                                                                         *)
(* f32 values are modelled as exact rationals <<n, d>> (d > 0, lowest      *)
(* terms), extended with the IEEE results of a division by zero:           *)
(* <<1, 0>> is +inf, <<-1, 0>> is -inf and <<0, 0>> is NaN.  Rounding of   *)
(* f32 arithmetic is not modelled.                                         *)
(***************************************************************************)
EXTENDS Integers, Sequences, FiniteSets, TLC

(* ------------------------------------------------------------------ *)
(* Bounds of the model                                                 *)
(* ------------------------------------------------------------------ *)

\* The longest block (buffer.samples()) the host hands to process.
MaxSamples == 2

\* The most events one process_events call delivers.
MaxEvents == 2

\* Rendering stops once the voice time has reached this many sample periods.
MaxTicks == 4

(* ------------------------------------------------------------------ *)
(* Program constants                                                   *)
(* ------------------------------------------------------------------ *)

\* sample_rate: 44100.0 (Default and init)
DefaultSampleRate == 44100

\* Info.outputs: the number of output channels the plugin declares.
OutputCount == 2

\* const A4_FREQ: f32 = 440.0
A4_FREQ == 440

\* const A4_NOTE: i8 = 69
A4_NOTE == 69

\* MIDI status bytes matched by process_events.
NOTE_OFF_STATUS == 128
NOTE_ON_STATUS == 144

(* ------------------------------------------------------------------ *)
(* f32 arithmetic as extended rationals                                *)
(* ------------------------------------------------------------------ *)

Abs(x) == IF x < 0 THEN -x ELSE x

Sign(x) == IF x < 0 THEN -1 ELSE IF x > 0 THEN 1 ELSE 0

RECURSIVE Gcd(_, _)
Gcd(a, b) == IF b = 0 THEN a ELSE Gcd(b, a % b)

\* The value n/d in lowest terms with a positive denominator; n/0 is an
\* infinity of the sign of n, 0/0 is NaN.
R(n, d) ==
    IF d = 0 THEN <<Sign(n), 0>>
    ELSE LET g == Gcd(Abs(n), Abs(d))
             s == IF d < 0 THEN -1 ELSE 1
         IN  <<s * (n \div g), s * (d \div g)>>

Zero == <<0, 1>>
One == <<1, 1>>
NaN == <<0, 0>>

IsNaN(a) == a = NaN
IsFinite(a) == a[2] # 0

FromInt(k) == <<k, 1>>

RAdd(a, b) ==
    IF IsNaN(a) \/ IsNaN(b) THEN NaN
    ELSE IF ~IsFinite(a) /\ ~IsFinite(b) THEN (IF a = b THEN a ELSE NaN)
    ELSE IF ~IsFinite(a) THEN a
    ELSE IF ~IsFinite(b) THEN b
    ELSE LET g == Gcd(a[2], b[2])
         IN  R(a[1] * (b[2] \div g) + b[1] * (a[2] \div g), (a[2] \div g) * b[2])

RNeg(a) == <<-a[1], a[2]>>

RSub(a, b) == RAdd(a, RNeg(b))

RMul(a, b) ==
    IF IsFinite(a) /\ IsFinite(b)
    THEN LET g1 == Gcd(Abs(a[1]), b[2])
             g2 == Gcd(Abs(b[1]), a[2])
             h1 == IF g1 = 0 THEN 1 ELSE g1
             h2 == IF g2 = 0 THEN 1 ELSE g2
         IN  R((a[1] \div h1) * (b[1] \div h2), (a[2] \div h2) * (b[2] \div h1))
    ELSE <<Sign(a[1]) * Sign(b[1]), 0>>

\* a / b with the IEEE results: x/0 is +-inf, 0/0 and inf/inf are NaN, x/inf is 0.
RDiv(a, b) ==
    IF IsNaN(a) \/ IsNaN(b) THEN NaN
    ELSE IF ~IsFinite(a) /\ ~IsFinite(b) THEN NaN
    ELSE IF ~IsFinite(b) THEN Zero
    ELSE IF b[1] = 0 THEN <<Sign(a[1]), 0>>
    ELSE IF ~IsFinite(a) THEN <<a[1] * Sign(b[1]), 0>>
    ELSE RMul(a, R(b[2], b[1]))

\* a < b; every comparison with NaN is false.
RLt(a, b) ==
    IF IsNaN(a) \/ IsNaN(b) THEN FALSE
    ELSE IF ~IsFinite(a) \/ ~IsFinite(b)
         THEN (IF ~IsFinite(a) /\ ~IsFinite(b) THEN a[1] < b[1]
               ELSE IF ~IsFinite(a) THEN a[1] < 0
               ELSE b[1] > 0)
    ELSE LET g == Gcd(a[2], b[2])
         IN  a[1] * (b[2] \div g) < b[1] * (a[2] \div g)

RLe(a, b) == ~IsNaN(a) /\ ~IsNaN(b) /\ ~RLt(b, a)

(* ------------------------------------------------------------------ *)
(* State                                                               *)
(* ------------------------------------------------------------------ *)

VARIABLES
    sample_rate,   \* RustSynth.sample_rate
    time,          \* RustSynth.time
    note,          \* RustSynth.note
    gate,          \* RustSynth.note_on, the gate of the voice
    params,        \* RustSynthParameters: the five AtomicFloat cells
    pc,            \* where the host is: "created", "idle", "events", "render"
    ev_count,      \* events already consumed by the running process_events
    last_event,    \* the event the dispatcher handled last in this call
    samples,       \* buffer.samples() of the running process call
    per_sample,    \* the local per_sample of the running process call
    sample_idx,    \* the loop index of the running process call
    buffer,        \* the output channels of the running process call
    envelope,      \* the local envelope: the last result of apply_envelope
    time0,         \* history: the voice time when the running block began
    last_on,       \* history: <<n>> for the most recent note-on n, or <<>>
    off_after,     \* history: a note-off for last_on came after that note-on
    since_on,      \* history: loop iterations of process since the last note-on
    host_rate,     \* the sample rate the host runs at
    loaded,        \* the parameter values the running loop iteration has read
    written,       \* history: per parameter, the values set_parameter was given
    arg,           \* the inputs of a function evaluated on its own
    result         \* its result

vars == <<sample_rate, time, note, gate, params, pc, ev_count, last_event,
          samples, per_sample, sample_idx, buffer, envelope, time0, last_on,
          off_after, since_on, host_rate, loaded, written, arg, result>>

voice == <<sample_rate, time, note, gate>>
render == <<samples, per_sample, sample_idx, buffer, envelope, time0>>
history == <<last_on, off_after>>
aux == <<host_rate, loaded, written, arg, result>>

(* ------------------------------------------------------------------ *)
(* Inputs of the host                                                  *)
(* ------------------------------------------------------------------ *)

\* Note numbers the host sends (MIDI data bytes).
Notes == {60, 61}

\* Velocities the host sends.
Velocities == {0, 100}

\* Status bytes the host sends: note-off and note-on of channel 1, note-off
\* and note-on of channel 2.
Statuses == {128, 144, 129, 145}

\* Events::events() yields MIDI events and events of other kinds.
MidiEvent(status, d1, d2) == [kind |-> "midi", data |-> <<status, d1, d2>>]
OtherEvent == [kind |-> "other"]
NoEvent == [kind |-> "none"]

HostEvents ==
    {MidiEvent(s, n, v) : s \in Statuses, n \in Notes, v \in Velocities}
        \cup {OtherEvent}

\* Parameter indices the control path uses, in and out of range.
ParamIndices == -1 .. 5

\* The value the control path writes: two sample periods (as a time constant).
ParamValues == {R(2, DefaultSampleRate)}

(* ------------------------------------------------------------------ *)
(* RustSynthParameters                                                 *)
(* ------------------------------------------------------------------ *)

\* The parameter store built by Default for RustSynth.
DefaultParams ==
    [volume  |-> R(1, 2),
     attack  |-> R(1, 100),
     decay   |-> R(1, 10),
     sustain |-> R(1, 2),
     release |-> R(1, 10)]

get_parameter(p, index) ==
    CASE index = 0 -> p.volume
      [] index = 1 -> p.attack
      [] index = 2 -> p.decay
      [] index = 3 -> p.sustain
      [] index = 4 -> p.release
      [] OTHER -> Zero

\* The indices counted from 1 instead of from 0.
set_parameter_from_one(p, index, value) ==
    CASE index = 1 -> [p EXCEPT !.volume = value]
      [] index = 2 -> [p EXCEPT !.attack = value]
      [] index = 3 -> [p EXCEPT !.decay = value]
      [] index = 4 -> [p EXCEPT !.sustain = value]
      [] index = 5 -> [p EXCEPT !.release = value]
      [] OTHER -> p

set_parameter(p, index, value) ==
    CASE index = 0 -> [p EXCEPT !.volume = value]
      [] index = 1 -> [p EXCEPT !.attack = value]
      [] index = 2 -> [p EXCEPT !.decay = value]
      [] index = 3 -> [p EXCEPT !.sustain = value]
      [] index = 4 -> [p EXCEPT !.release = value]
      [] OTHER -> p

(* ------------------------------------------------------------------ *)
(* RustSynth: the voice                                                *)
(* ------------------------------------------------------------------ *)

\* The voice fields the dispatcher and the render loop work on.
Voice(t, n, g) == [time |-> t, note |-> n, gate |-> g]

time_per_sample(rate) == RDiv(One, rate)

\* A note-on of velocity 0 taken as a release, as MIDI running status does.
note_on_velocity_gate(v, n, velocity) ==
    [v EXCEPT !.note = n, !.gate = (velocity > 0), !.time = Zero]

\* A note-on that does not retrigger a voice that is already sounding.
note_on_no_retrigger(v, n, velocity) ==
    IF v.gate THEN v ELSE [v EXCEPT !.note = n, !.gate = TRUE, !.time = Zero]

note_on(v, n, velocity) == [v EXCEPT !.note = n, !.gate = TRUE, !.time = Zero]

\* A note-off that releases whatever note is sounding.
note_off_any_note(v, n) == [v EXCEPT !.gate = FALSE]

\* A note-off that restarts the clock for the release ramp.
note_off_restarts_time(v, n) ==
    IF v.note = n THEN [v EXCEPT !.gate = FALSE, !.time = Zero] ELSE v

note_off(v, n) == IF v.note = n THEN [v EXCEPT !.gate = FALSE] ELSE v

\* The match taken on the kind of message alone, whatever the channel.
handle_event_any_channel(v, e) ==
    IF e.kind = "midi"
    THEN CASE e.data[1] \div 16 = NOTE_OFF_STATUS \div 16 -> note_off(v, e.data[2])
           [] e.data[1] \div 16 = NOTE_ON_STATUS \div 16 ->
                 note_on(v, e.data[2], e.data[3])
           [] OTHER -> v
    ELSE v

\* One iteration of the loop of process_events: the match on the event.
handle_event(v, e) ==
    IF e.kind = "midi"
    THEN CASE e.data[1] = NOTE_OFF_STATUS -> note_off(v, e.data[2])
           [] e.data[1] = NOTE_ON_STATUS -> note_on(v, e.data[2], e.data[3])
           [] OTHER -> v
    ELSE v

\* note as i8
as_i8(n) == IF n >= 128 THEN n - 256 ELSE n

\* note as i8 - A4_NOTE leaves the range of i8.
sub_overflows(n) == as_i8(n) - A4_NOTE < -128

\* note as i8 - A4_NOTE as a wrapping build computes it.
semitones(n) ==
    LET d == as_i8(n) - A4_NOTE IN IF d < -128 THEN d + 256 ELSE d

\* The scale referenced to middle C (note 60) instead of A4.
midi_note_to_freq_from_middle_c(n) ==
    LET k == semitones(n) + 9 IN [oct |-> k \div 12, step |-> k % 12]

\* A4_FREQ * 2^(k / 12), kept as the octave and the step within it:
\* the frequency is A4_FREQ * 2^oct * 2^(step / 12).
midi_note_to_freq(n) ==
    LET k == semitones(n) IN [oct |-> k \div 12, step |-> k % 12]

\* sin(time * freq * 2 pi): 0 at time 0, otherwise kept as the term
\* <<"sin", time, freq>>.
generate_wave(t, n) ==
    IF t = Zero THEN Zero ELSE <<"sin", t, midi_note_to_freq(n)>>

\* The attack test taken with <= instead of <.
apply_envelope_attack_le(t, g, p) ==
    IF g
    THEN IF RLe(t, p.attack)
         THEN RDiv(t, p.attack)
         ELSE IF RLt(t, RAdd(p.attack, p.decay))
              THEN RSub(One, RDiv(RMul(RSub(One, p.sustain), RSub(t, p.attack)),
                                  p.decay))
              ELSE p.sustain
    ELSE IF RLt(t, p.release)
         THEN RMul(p.sustain, RSub(One, RDiv(t, p.release)))
         ELSE Zero

\* The release ramp started from 1 instead of from sustain.
apply_envelope_release_from_one(t, g, p) ==
    IF g
    THEN IF RLt(t, p.attack)
         THEN RDiv(t, p.attack)
         ELSE IF RLt(t, RAdd(p.attack, p.decay))
              THEN RSub(One, RDiv(RMul(RSub(One, p.sustain), RSub(t, p.attack)),
                                  p.decay))
              ELSE p.sustain
    ELSE IF RLt(t, p.release)
         THEN RSub(One, RDiv(t, p.release))
         ELSE Zero

\* The decay ramp measured from the note-on instead of from the end of the attack.
apply_envelope_decay_from_zero(t, g, p) ==
    IF g
    THEN IF RLt(t, p.attack)
         THEN RDiv(t, p.attack)
         ELSE IF RLt(t, RAdd(p.attack, p.decay))
              THEN RSub(One, RDiv(RMul(RSub(One, p.sustain), t), p.decay))
              ELSE p.sustain
    ELSE IF RLt(t, p.release)
         THEN RMul(p.sustain, RSub(One, RDiv(t, p.release)))
         ELSE Zero

\* The decay test taken with <= instead of <.
apply_envelope_decay_le(t, g, p) ==
    IF g
    THEN IF RLt(t, p.attack)
         THEN RDiv(t, p.attack)
         ELSE IF RLe(t, RAdd(p.attack, p.decay))
              THEN RSub(One, RDiv(RMul(RSub(One, p.sustain), RSub(t, p.attack)),
                                  p.decay))
              ELSE p.sustain
    ELSE IF RLt(t, p.release)
         THEN RMul(p.sustain, RSub(One, RDiv(t, p.release)))
         ELSE Zero

apply_envelope(t, g, p) ==
    IF g
    THEN IF RLt(t, p.attack)
         THEN RDiv(t, p.attack)
         ELSE IF RLt(t, RAdd(p.attack, p.decay))
              THEN RSub(One, RDiv(RMul(RSub(One, p.sustain), RSub(t, p.attack)),
                                  p.decay))
              ELSE p.sustain
    ELSE IF RLt(t, p.release)
         THEN RMul(p.sustain, RSub(One, RDiv(t, p.release)))
         ELSE Zero

\* let out = wave * envelope * self.params.volume, kept as its factors.
mix(t, n, g, p) ==
    <<"mul", generate_wave(t, n), apply_envelope(t, g, p), p.volume>>

\* The envelope is evaluated in every iteration, gate on or off.
loop_envelope_always(old, t, g, p) == <<apply_envelope(t, g, p)>>

\* The envelope local of the loop body: computed only under if self.note_on.
loop_envelope(old, t, g, p) == IF g THEN <<apply_envelope(t, g, p)>> ELSE old

\* Only the first channel is written.
write_sample_first_channel(buf, idx, out) ==
    [c \in DOMAIN buf |-> IF c = 0 THEN [buf[c] EXCEPT ![idx] = out] ELSE buf[c]]

\* The inner loop of process: out goes to position idx of every channel.
write_sample(buf, idx, out) ==
    [c \in DOMAIN buf |-> [buf[c] EXCEPT ![idx] = out]]

\* The release tail is written too, until the envelope has reached 0.
render_sample_with_release(buf, idx, t, n, g, p) ==
    IF g \/ RLt(t, p.release) THEN write_sample(buf, idx, mix(t, n, g, p)) ELSE buf

\* The body of the sample loop of process on the outputs.
render_sample(buf, idx, t, n, g, p) ==
    IF g THEN write_sample(buf, idx, mix(t, n, g, p)) ELSE buf

\* self.time += per_sample
advance(t, per) == RAdd(t, per)

\* What the host left at position i of channel c before the call.
HostValue(c, i) == <<"host", c, i>>

HostBuffer(n) ==
    [c \in 0 .. (OutputCount - 1) |-> [i \in 0 .. (n - 1) |-> HostValue(c, i)]]

NoBuffer == <<>>

\* No envelope has been computed in this call.
NoValue == <<>>

\* The names of the five parameters, by index.
ParamNames == <<"volume", "attack", "decay", "sustain", "release">>

\* set_parameter has not been called.
NoWrites == [k \in {"volume", "attack", "decay", "sustain", "release"} |-> {}]

(* ------------------------------------------------------------------ *)
(* Initial state and actions                                           *)
(* ------------------------------------------------------------------ *)

\* Plugin::new: Default::default()
Init ==
    /\ sample_rate = FromInt(DefaultSampleRate)
    /\ time = Zero
    /\ note = 0
    /\ gate = FALSE
    /\ params = DefaultParams
    /\ pc = "created"
    /\ ev_count = 0
    /\ last_event = NoEvent
    /\ samples = 0
    /\ per_sample = Zero
    /\ sample_idx = 0
    /\ buffer = NoBuffer
    /\ envelope = NoValue
    /\ time0 = Zero
    /\ last_on = <<>>
    /\ off_after = FALSE
    /\ since_on = 0
    /\ host_rate = DefaultSampleRate
    /\ loaded = NoValue
    /\ written = NoWrites
    /\ arg = NoValue
    /\ result = NoValue

\* Plugin::init
plugin_init ==
    /\ pc = "created"
    /\ sample_rate' = FromInt(DefaultSampleRate)
    /\ pc' = "idle"
    /\ UNCHANGED <<time, note, gate, params, ev_count, last_event>>
    /\ UNCHANGED <<render, history, since_on, aux>>

\* PluginParameters::set_parameter, called by the control path at any moment.
SetParameter(index, value) ==
    /\ params' = set_parameter(params, index, value)
    /\ UNCHANGED <<voice, pc, ev_count, last_event, render, history, since_on, aux>>

\* The host calls process_events.
ProcessEventsBegin ==
    /\ pc = "idle"
    /\ pc' = "events"
    /\ ev_count' = 0
    /\ last_event' = NoEvent
    /\ UNCHANGED <<voice, params, render, history, since_on, aux>>

IsNoteOn(e) == e.kind = "midi" /\ e.data[1] = NOTE_ON_STATUS
IsNoteOff(e) == e.kind = "midi" /\ e.data[1] = NOTE_OFF_STATUS

\* One iteration of for event in events.events(): the iterator yields e.
DispatchEvent(e) ==
    /\ pc = "events"
    /\ ev_count < MaxEvents
    /\ LET v == handle_event(Voice(time, note, gate), e)
       IN  /\ time' = v.time
           /\ note' = v.note
           /\ gate' = v.gate
    /\ ev_count' = ev_count + 1
    /\ last_event' = e
    /\ last_on' = IF IsNoteOn(e) THEN <<e.data[2]>> ELSE last_on
    /\ off_after' = IF IsNoteOn(e) THEN FALSE
                    ELSE IF IsNoteOff(e) /\ last_on = <<e.data[2]>> THEN TRUE
                    ELSE off_after
    /\ since_on' = IF IsNoteOn(e) THEN 0 ELSE since_on
    /\ UNCHANGED <<sample_rate, params, pc, render, aux>>

\* The iterator is exhausted: process_events returns.
ProcessEventsEnd ==
    /\ pc = "events"
    /\ pc' = "idle"
    /\ ev_count' = 0
    /\ last_event' = NoEvent
    /\ UNCHANGED <<voice, params, render, history, since_on, aux>>

\* The host calls process with a block of n samples: the lines before the loop.
ProcessBegin(n) ==
    /\ pc = "idle"
    /\ LET per == time_per_sample(sample_rate)
       IN  /\ RLe(RAdd(time, RMul(FromInt(n), per)), RMul(FromInt(MaxTicks), per))
           /\ per_sample' = per
    /\ pc' = "render"
    /\ samples' = n
    /\ sample_idx' = 0
    /\ buffer' = HostBuffer(n)
    /\ envelope' = NoValue
    /\ time0' = time
    /\ UNCHANGED <<voice, params, ev_count, last_event, history, since_on, aux>>

\* A loop body that closes the gate itself once the attack is over.
ProcessSample_closes_gate ==
    /\ pc = "render"
    /\ sample_idx < samples
    /\ buffer' = render_sample(buffer, sample_idx, time, note, gate, params)
    /\ envelope' = loop_envelope(envelope, time, gate, params)
    /\ time' = advance(time, per_sample)
    /\ sample_idx' = sample_idx + 1
    /\ since_on' = since_on + 1
    /\ gate' = (gate /\ RLt(time, params.attack))
    /\ UNCHANGED <<sample_rate, note, params, pc, ev_count, last_event,
                   samples, per_sample, time0, history, aux>>

\* A loop body that steps the time first and computes the sample after.
ProcessSample_advance_first ==
    /\ pc = "render"
    /\ sample_idx < samples
    /\ buffer' = render_sample(buffer, sample_idx, advance(time, per_sample),
                               note, gate, params)
    /\ envelope' = loop_envelope(envelope, advance(time, per_sample), gate, params)
    /\ time' = advance(time, per_sample)
    /\ sample_idx' = sample_idx + 1
    /\ since_on' = since_on + 1
    /\ UNCHANGED <<sample_rate, note, gate, params, pc, ev_count, last_event,
                   samples, per_sample, time0, history, aux>>

\* One iteration of for sample_idx in 0..samples.
ProcessSample ==
    /\ pc = "render"
    /\ sample_idx < samples
    /\ buffer' = render_sample(buffer, sample_idx, time, note, gate, params)
    /\ envelope' = loop_envelope(envelope, time, gate, params)
    /\ time' = advance(time, per_sample)
    /\ sample_idx' = sample_idx + 1
    /\ since_on' = since_on + 1
    /\ UNCHANGED <<sample_rate, note, gate, params, pc, ev_count, last_event,
                   samples, per_sample, time0, history, aux>>

\* The loop is over: process returns and the buffer goes back to the host.
ProcessEnd ==
    /\ pc = "render"
    /\ sample_idx = samples
    /\ pc' = "idle"
    /\ samples' = 0
    /\ per_sample' = Zero
    /\ sample_idx' = 0
    /\ buffer' = NoBuffer
    /\ envelope' = NoValue
    /\ time0' = Zero
    /\ UNCHANGED <<voice, params, ev_count, last_event, history, since_on, aux>>

Next ==
    \/ plugin_init
    \/ \E index \in ParamIndices, value \in ParamValues : SetParameter(index, value)
    \/ ProcessEventsBegin
    \/ \E e \in HostEvents : DispatchEvent(e)
    \/ ProcessEventsEnd
    \/ \E n \in 0 .. MaxSamples : ProcessBegin(n)
    \/ ProcessSample
    \/ ProcessEnd

Spec == Init /\ [][Next]_vars

(* ------------------------------------------------------------------ *)
(* The envelope as a pure function of (gate, time, parameters)         *)
(* ------------------------------------------------------------------ *)

\* The largest time constant of the grid, in tenths of a second.
EnvMax == 4

\* The largest voice time of the grid, in twentieths of a second.
EnvTimeMax == 12

\* attack, decay and release: any float may be set, negative and zero too.
EnvTimeConsts == {R(k, 10) : k \in -1 .. EnvMax}

\* sustain: values in and out of [0, 1].
EnvSustains == {R(-1, 10), Zero, R(3, 10), One, R(3, 2)}

\* Voice times: the time is never negative.
EnvTimes == {R(k, 20) : k \in 0 .. EnvTimeMax}

InitEnv ==
    /\ sample_rate = FromInt(DefaultSampleRate)
    /\ time \in EnvTimes
    /\ note = 0
    /\ gate \in BOOLEAN
    /\ params \in [volume : {R(1, 2)}, attack : EnvTimeConsts, decay : EnvTimeConsts,
                    sustain : EnvSustains, release : EnvTimeConsts]
    /\ pc = "env"
    /\ ev_count = 0
    /\ last_event = NoEvent
    /\ samples = 0
    /\ per_sample = Zero
    /\ sample_idx = 0
    /\ buffer = NoBuffer
    /\ envelope = NoValue
    /\ time0 = Zero
    /\ last_on = <<>>
    /\ off_after = FALSE
    /\ since_on = 0
    /\ host_rate = DefaultSampleRate
    /\ loaded = NoValue
    /\ written = NoWrites
    /\ arg = NoValue
    /\ result = NoValue

\* let envelope = self.apply_envelope()
EvalEnvelope ==
    /\ pc = "env"
    /\ envelope' = <<apply_envelope(time, gate, params)>>
    /\ pc' = "env_done"
    /\ UNCHANGED <<voice, params, ev_count, last_event, samples, per_sample,
                   sample_idx, buffer, time0, history, since_on, aux>>

NextEnv == EvalEnvelope

SpecEnv == InitEnv /\ [][NextEnv]_vars

(* ------------------------------------------------------------------ *)
(* Properties of the event dispatcher                                  *)
(* ------------------------------------------------------------------ *)

\* The step is one iteration of the loop of process_events.
DispatchStep == pc = "events" /\ pc' = "events" /\ ev_count' = ev_count + 1

\* C1: from any voice state, a note-on of note n and velocity v leaves the
\* voice with note = n, gate = TRUE and time = 0, and the state it leaves
\* is the same for every velocity (the voice keeps no trace of v, and the
\* render loop reads only the voice and the parameters).
C1_NoteOnResetsVoice ==
    [][(DispatchStep /\ IsNoteOn(last_event'))
        => /\ note' = last_event'.data[2]
           /\ gate' = TRUE
           /\ time' = Zero
           /\ \A v \in Velocities :
                handle_event(Voice(time, note, gate),
                             MidiEvent(NOTE_ON_STATUS, last_event'.data[2], v))
                    = Voice(time', note', gate')]_vars

\* A note-on of velocity 0 has triggered note 61.
C1_Witness ==
    /\ pc = "events"
    /\ IsNoteOn(last_event)
    /\ last_event.data[3] = 0
    /\ last_on = <<61>>
    /\ note = 61
    /\ gate
    /\ time = Zero

\* C2: a note-off of note n clears the gate exactly when n is the stored
\* note; otherwise gate is unchanged; note and time are unchanged in both
\* cases.
C2_NoteOffFrame ==
    [][(DispatchStep /\ IsNoteOff(last_event'))
        => /\ (last_event'.data[2] = note => gate' = FALSE)
           /\ (last_event'.data[2] # note => gate' = gate)
           /\ note' = note
           /\ time' = time]_vars

\* A note-off of another note reached a sounding voice that has rendered
\* samples, and was ignored.
C2_Witness ==
    /\ pc = "events"
    /\ IsNoteOff(last_event)
    /\ last_event.data[2] # note
    /\ gate
    /\ RLt(Zero, time)

\* C3: after any sequence of events, the stored note is the note of the most
\* recent note-on, and the gate is on exactly when a note-on has occurred
\* and no note-off of that note has arrived since the most recent note-on.
C3_GateFollowsEvents ==
    /\ (last_on # <<>> => note = last_on[1])
    /\ (gate <=> (last_on # <<>> /\ ~off_after))

\* noteOn(60), noteOn(61), noteOff(60): the voice still sounds note 61.
C3_Witness ==
    /\ pc = "events"
    /\ last_event = MidiEvent(NOTE_OFF_STATUS, 60, 0)
    /\ last_on = <<61>>
    /\ ~off_after
    /\ gate
    /\ note = 61

(* ------------------------------------------------------------------ *)
(* Properties of the render loop                                       *)
(* ------------------------------------------------------------------ *)

\* The step is one iteration of the sample loop of process.
SampleStep == pc = "render" /\ pc' = "render" /\ sample_idx' = sample_idx + 1

\* The step belongs to a process call: its entry, a loop iteration, its return.
ProcessStep ==
    \/ pc = "idle" /\ pc' = "render"
    \/ SampleStep
    \/ pc = "render" /\ pc' = "idle"

\* The positions the running process call has been through.
Positions == 0 .. (sample_idx - 1)
Channels == 0 .. (OutputCount - 1)

\* C4: while process runs a block with the gate off it writes no sample:
\* every position of every channel holds what the host left there.
C4_GateOffWritesNothing ==
    (pc = "render" /\ ~gate)
        => \A c \in Channels : \A i \in 0 .. (samples - 1) :
              buffer[c][i] = HostValue(c, i)

\* A released note inside its release time: a whole block of two or more
\* samples has been run through with the gate off.
C4_Witness ==
    /\ pc = "render"
    /\ ~gate
    /\ last_on # <<>>
    /\ samples >= 2
    /\ sample_idx = samples
    /\ RLt(time, params.release)

\* C5: while process runs a block with the gate on, every position it has
\* been through is written in every channel with one same value, and the
\* value written at a position is wave * envelope * volume of the voice time
\* at that position.
C5_GateOnWritesEveryChannel ==
    /\ [][(SampleStep /\ gate)
           => \A c \in Channels :
                 buffer'[c][sample_idx] =
                    <<"mul", generate_wave(time, note),
                      apply_envelope(time, TRUE, params), params.volume>>]_vars
    /\ []((pc = "render" /\ gate)
           => \A c \in Channels : \A i \in Positions :
                 /\ buffer[c][i] # HostValue(c, i)
                 /\ buffer[c][i] = buffer[0][i])

\* A block of two or more samples has been rendered with the gate on, the
\* last of them after the attack.
C5_Witness ==
    /\ pc = "render"
    /\ gate
    /\ samples >= 2
    /\ sample_idx = samples
    /\ RLe(RAdd(params.attack, per_sample), time)
    /\ \A c \in Channels : buffer[c][samples - 1][1] = "mul"

C7_ProcessFrame ==
    [][ProcessStep => UNCHANGED <<note, gate, sample_rate, params>>]_vars

\* A block has been rendered with the gate on and parameters the control
\* path had changed.
C7_Witness ==
    /\ pc = "render"
    /\ gate
    /\ samples >= 1
    /\ sample_idx = samples
    /\ params.attack # DefaultParams.attack
    /\ params.volume # DefaultParams.volume

(* ------------------------------------------------------------------ *)
(* Properties of the envelope                                          *)
(* ------------------------------------------------------------------ *)

\* The envelope has been evaluated on the inputs of the state.
EnvDone == pc = "env_done"

\* The decay ramp of the envelope at time t.
DecayRamp(t, p) ==
    RSub(One, RDiv(RMul(RSub(One, p.sustain), RSub(t, p.attack)), p.decay))

InAttack(t, p) == RLt(t, p.attack)
InDecay(t, p) == RLe(p.attack, t) /\ RLt(t, RAdd(p.attack, p.decay))
InSustain(t, p) == RLe(RAdd(p.attack, p.decay), t)

\* Exactly one of three conditions holds.
ExactlyOne(a, b, c) == (a \/ b \/ c) /\ ~(a /\ b) /\ ~(a /\ c) /\ ~(b /\ c)

\* C8 as stated: with the gate on the three stage conditions select exactly
\* one stage for every attack, decay and sustain, and the envelope is that
\* stage's formula; it is 1 at time = attack (decay > 0) and sustain at
\* time = attack + decay.
C8_AsStated ==
    (EnvDone /\ gate)
        => /\ ExactlyOne(InAttack(time, params), InDecay(time, params),
                         InSustain(time, params))
           /\ (InAttack(time, params) => envelope[1] = RDiv(time, params.attack))
           /\ (InDecay(time, params) => envelope[1] = DecayRamp(time, params))
           /\ (InSustain(time, params) => envelope[1] = params.sustain)
           /\ ((time = params.attack /\ RLt(Zero, params.decay))
                 => envelope[1] = One)
           /\ (time = RAdd(params.attack, params.decay)
                 => envelope[1] = params.sustain)

\* C8 amended: the stage tests are taken in the order attack, decay, sustain,
\* so the sustain stage is selected when time >= attack + decay and
\* time >= attack (a negative decay leaves attack + decay <= time < attack in
\* the attack stage); with that the tests select exactly one stage and the
\* envelope is its formula; it is 1 at time = attack (decay > 0) and sustain
\* at time = attack + decay when decay >= 0.
C8_StagesInOrder ==
    (EnvDone /\ gate)
        => /\ ExactlyOne(InAttack(time, params), InDecay(time, params),
                         InSustain(time, params) /\ RLe(params.attack, time))
           /\ (InAttack(time, params) => envelope[1] = RDiv(time, params.attack))
           /\ (InDecay(time, params) => envelope[1] = DecayRamp(time, params))
           /\ ((InSustain(time, params) /\ RLe(params.attack, time))
                 => envelope[1] = params.sustain)
           /\ ((time = params.attack /\ RLt(Zero, params.decay))
                 => envelope[1] = One)
           /\ ((time = RAdd(params.attack, params.decay) /\ RLe(Zero, params.decay))
                 => envelope[1] = params.sustain)

\* The envelope has been evaluated inside the decay stage, strictly between
\* sustain and 1.
C8_Witness ==
    /\ EnvDone
    /\ gate
    /\ RLt(params.attack, time)
    /\ RLt(time, RAdd(params.attack, params.decay))
    /\ RLt(params.sustain, envelope[1])
    /\ RLt(envelope[1], One)

\* C9: with the gate off the envelope is sustain * (1 - time / release) when
\* time < release and 0 when time >= release, the boundary time = release
\* included; attack and decay have no influence on it.
C9_ReleaseAndSilent ==
    (EnvDone /\ ~gate)
        => /\ (RLt(time, params.release)
                 => envelope[1] =
                      RMul(params.sustain, RSub(One, RDiv(time, params.release))))
           /\ (RLe(params.release, time) => envelope[1] = Zero)
           /\ \A a \in EnvTimeConsts, d \in EnvTimeConsts :
                 apply_envelope(time, gate, [params EXCEPT !.attack = a, !.decay = d])
                    = envelope[1]

\* The envelope has been evaluated inside the release of a positive sustain,
\* and lies strictly between 0 and sustain.
C9_Witness ==
    /\ EnvDone
    /\ ~gate
    /\ RLt(Zero, time)
    /\ RLt(time, params.release)
    /\ RLt(Zero, envelope[1])
    /\ RLt(envelope[1], params.sustain)

\* The parameters are in their intended ranges: sustain in [0, 1] and
\* attack, decay, release > 0.
ParamsInRange(p) ==
    /\ RLe(Zero, p.sustain)
    /\ RLe(p.sustain, One)
    /\ RLt(Zero, p.attack)
    /\ RLt(Zero, p.decay)
    /\ RLt(Zero, p.release)

\* C10: with sustain in [0, 1] and attack, decay, release > 0, the envelope
\* of a voice time >= 0 is in [0, 1], gate on or off.
C10_EnvelopeInUnitRange ==
    (EnvDone /\ ParamsInRange(params))
        => RLe(Zero, envelope[1]) /\ RLe(envelope[1], One)

\* The envelope has been evaluated at its peak, time = attack, where it is 1
\* above a sustain below 1.
C10_Witness ==
    /\ EnvDone
    /\ gate
    /\ ParamsInRange(params)
    /\ RLt(params.sustain, One)
    /\ time = params.attack
    /\ envelope[1] = One

(* ------------------------------------------------------------------ *)
(* Division by zero in the envelope                                    *)
(* ------------------------------------------------------------------ *)

\* The parameters the envelope grid draws from.
EnvParams ==
    [volume : {R(1, 2)}, attack : EnvTimeConsts, decay : EnvTimeConsts,
     sustain : EnvSustains, release : EnvTimeConsts]

\* A time constant of p is zero.
HasZeroConstant(p) == p.attack = Zero \/ p.decay = Zero \/ p.release = Zero

\* Evaluating the envelope at (t, g, p) divides by zero.  The inputs are
\* finite, every ramp of apply_envelope ends in one division, and a
\* quotient by zero is an infinity or NaN that the subtraction and the
\* product around it keep: the result is not finite exactly when the
\* divisor was zero.
DividesByZero(t, g, p) == ~IsFinite(apply_envelope(t, g, p))

ParamCallValues == {Zero, R(7, 10)}

\* What get_parameter returns for every index the control path uses.
ReadAll(p) == [j \in ParamIndices |-> get_parameter(p, j)]

InitParams ==
    /\ sample_rate = FromInt(DefaultSampleRate)
    /\ time = Zero
    /\ note = 0
    /\ gate = FALSE
    /\ params = DefaultParams
    /\ pc = "params"
    /\ ev_count = 0
    /\ last_event = NoEvent
    /\ samples = 0
    /\ per_sample = Zero
    /\ sample_idx = 0
    /\ buffer = NoBuffer
    /\ envelope = NoValue
    /\ time0 = Zero
    /\ last_on = <<>>
    /\ off_after = FALSE
    /\ since_on = 0
    /\ host_rate = DefaultSampleRate
    /\ loaded = NoValue
    /\ written = NoWrites
    /\ arg = NoValue
    /\ result = NoValue

\* set_parameter(index, value), with get_parameter of every index before
\* and after it.
ParamCall(index, value) ==
    /\ pc = "params"
    /\ params' = set_parameter(params, index, value)
    /\ arg' = <<index, value>>
    /\ result' = [before |-> ReadAll(params),
                  after |-> ReadAll(set_parameter(params, index, value))]
    /\ UNCHANGED <<voice, pc, ev_count, last_event, render, history, since_on,
                   host_rate, loaded, written>>

NextParams ==
    \E index \in ParamIndices, value \in ParamCallValues : ParamCall(index, value)

SpecParams == InitParams /\ [][NextParams]_vars

\* The indices of the five parameters.
ValidIndices == 0 .. 4

\* C12: indices 0..4 address volume, attack, decay, sustain, release in
\* that order; set_parameter(i, v) with i in 0..4 changes parameter i only,
\* get_parameter(i) then returns v and the other four read as before; for
\* any other index get_parameter returns 0.0 and set_parameter changes
\* nothing.
C12_ParameterIndices ==
    (arg # NoValue)
        => LET i == arg[1]
               v == arg[2]
           IN  /\ \A j \in ValidIndices : result.after[j] = params[ParamNames[j + 1]]
               /\ \A j \in ParamIndices \ ValidIndices : result.after[j] = Zero
               /\ (i \in ValidIndices
                     => /\ result.after[i] = v
                        /\ params[ParamNames[i + 1]] = v
                        /\ \A j \in ValidIndices \ {i} :
                              result.after[j] = result.before[j])
               /\ (i \notin ValidIndices
                     => \A j \in ValidIndices : result.after[j] = result.before[j])

\* set_parameter(3, 0.7) has set sustain and left a decay of 0 and the
\* default attack as they were.
C12_Witness ==
    /\ pc = "params"
    /\ arg = <<3, R(7, 10)>>
    /\ params.sustain = R(7, 10)
    /\ params.decay = Zero
    /\ params.attack = DefaultParams.attack
    /\ result.after[3] = R(7, 10)
    /\ result.before[3] # R(7, 10)

(* ------------------------------------------------------------------ *)
(* The control path writing the parameter cells while process reads    *)
(* ------------------------------------------------------------------ *)

\* Samples rendered in all in this specification.
ConcTicks == 2

\* The value the control path writes in this specification; it differs
\* from all five defaults.
ConcValues == {R(1, 4)}

\* The order in which one loop iteration reads the cells: the four of
\* apply_envelope, then volume.
LoadOrder == <<"attack", "decay", "sustain", "release", "volume">>

\* The parameter record one iteration has read, cell by cell.
Snapshot(l) ==
    [volume |-> l[5], attack |-> l[1], decay |-> l[2], sustain |-> l[3],
     release |-> l[4]]

\* The cell set_parameter addresses with an index, if any.
WrittenBy(w, index, value) ==
    IF index \in 0 .. 4
    THEN [w EXCEPT ![ParamNames[index + 1]] = @ \cup {value}]
    ELSE w

\* The plugin after new and init, with or without a note held (note 60
\* after a note-on, the default note otherwise).
InitConc ==
    /\ sample_rate = FromInt(DefaultSampleRate)
    /\ time = Zero
    /\ gate \in BOOLEAN
    /\ note = IF gate THEN 60 ELSE 0
    /\ params = DefaultParams
    /\ pc = "idle"
    /\ ev_count = 0
    /\ last_event = NoEvent
    /\ samples = 0
    /\ per_sample = Zero
    /\ sample_idx = 0
    /\ buffer = NoBuffer
    /\ envelope = NoValue
    /\ time0 = Zero
    /\ last_on = IF gate THEN <<60>> ELSE <<>>
    /\ off_after = FALSE
    /\ since_on = 0
    /\ host_rate = DefaultSampleRate
    /\ loaded = NoValue
    /\ written = NoWrites
    /\ arg = NoValue
    /\ result = NoValue

\* The host calls process; the calls end after ConcTicks samples.
ConcBegin(n) ==
    /\ RLe(RAdd(time, RMul(FromInt(n), time_per_sample(sample_rate))),
           RMul(FromInt(ConcTicks), time_per_sample(sample_rate)))
    /\ ProcessBegin(n)

\* The control thread enters set_parameter(index, value).
SetBegin(index, value) ==
    /\ arg = NoValue
    /\ arg' = <<index, value>>
    /\ written' = WrittenBy(written, index, value)
    /\ UNCHANGED <<voice, params, pc, ev_count, last_event, render, history,
                   since_on, host_rate, loaded, result>>

\* The store of set_parameter into the addressed cell, then its return.
SetStore ==
    /\ arg # NoValue
    /\ params' = set_parameter(params, arg[1], arg[2])
    /\ arg' = NoValue
    /\ UNCHANGED <<voice, pc, ev_count, last_event, render, history, since_on,
                   host_rate, loaded, written, result>>

\* The audio thread is in the loop body with the gate on and has read the
\* first k cells.
Loading(k) ==
    /\ pc = "render"
    /\ sample_idx < samples
    /\ gate
    /\ Len(loaded) = k

LoadAttack ==
    /\ Loading(0)
    /\ loaded' = Append(loaded, params.attack)
    /\ UNCHANGED <<voice, params, pc, ev_count, last_event, render, history,
                   since_on, host_rate, written, arg, result>>

LoadDecay ==
    /\ Loading(1)
    /\ loaded' = Append(loaded, params.decay)
    /\ UNCHANGED <<voice, params, pc, ev_count, last_event, render, history,
                   since_on, host_rate, written, arg, result>>

LoadSustain ==
    /\ Loading(2)
    /\ loaded' = Append(loaded, params.sustain)
    /\ UNCHANGED <<voice, params, pc, ev_count, last_event, render, history,
                   since_on, host_rate, written, arg, result>>

\* The read of release takes the decay cell.
LoadRelease_reads_decay ==
    /\ Loading(3)
    /\ loaded' = Append(loaded, params.decay)
    /\ UNCHANGED <<voice, params, pc, ev_count, last_event, render, history,
                   since_on, host_rate, written, arg, result>>

LoadRelease ==
    /\ Loading(3)
    /\ loaded' = Append(loaded, params.release)
    /\ UNCHANGED <<voice, params, pc, ev_count, last_event, render, history,
                   since_on, host_rate, written, arg, result>>

LoadVolume ==
    /\ Loading(4)
    /\ loaded' = Append(loaded, params.volume)
    /\ UNCHANGED <<voice, params, pc, ev_count, last_event, render, history,
                   since_on, host_rate, written, arg, result>>

\* The audio thread is in the loop body and has read what the body needs.
SampleReady ==
    /\ pc = "render"
    /\ sample_idx < samples
    /\ gate => Len(loaded) = Len(LoadOrder)

\* The rest of one loop iteration: the sample from the values read, the
\* write to every channel, the time step. With the gate off nothing was
\* read and only the time step is left.
ConcSample ==
    /\ SampleReady
    /\ buffer' = render_sample(buffer, sample_idx, time, note, gate, Snapshot(loaded))
    /\ envelope' = loop_envelope(envelope, time, gate, Snapshot(loaded))
    /\ loaded' = NoValue
    /\ time' = advance(time, per_sample)
    /\ sample_idx' = sample_idx + 1
    /\ since_on' = since_on + 1
    /\ UNCHANGED <<sample_rate, note, gate, params, pc, ev_count, last_event,
                   samples, per_sample, time0, history, host_rate, written, arg,
                   result>>

\* The reads of the audio thread inside one process call, and its return.
AudioStep ==
    \/ LoadAttack
    \/ LoadDecay
    \/ LoadSustain
    \/ LoadRelease
    \/ LoadVolume
    \/ ProcessEnd

\* The steps of the control thread.
ControlStep ==
    \/ \E index \in ParamIndices, value \in ConcValues : SetBegin(index, value)
    \/ SetStore

NextConc ==
    \/ \E n \in 0 .. MaxSamples : ConcBegin(n)
    \/ LoadAttack
    \/ LoadDecay
    \/ LoadSustain
    \/ LoadRelease
    \/ LoadVolume
    \/ ConcSample
    \/ ProcessEnd
    \/ \E index \in ParamIndices, value \in ConcValues : SetBegin(index, value)
    \/ SetStore

SpecConc == InitConc /\ [][NextConc]_vars

\* The values a read of the k-th cell of LoadOrder may return: the default
\* of that parameter and what set_parameter calls, finished or under way,
\* were given for it.
Allowed(k) == {DefaultParams[LoadOrder[k]]} \cup written[LoadOrder[k]]

\* C13: whatever the interleaving of set_parameter with the render loop,
\* every parameter value read for a sample is the default of that
\* parameter or a value given to an earlier or concurrent set_parameter
\* for that same parameter, and neither thread waits for the other: the
\* control thread can always take its next step, and inside a process call
\* the audio thread can always take its next read, finish its sample or
\* return.
C13_ReadsAreWrittenValues ==
    /\ \A k \in DOMAIN loaded : loaded[k] \in Allowed(k)
    /\ \A c \in DOMAIN buffer : \A i \in 0 .. sample_idx - 1 :
          gate => buffer[c][i][4] \in Allowed(5)
    /\ ENABLED ControlStep
    /\ (pc = "render") => (SampleReady \/ ENABLED AudioStep)

\* The second iteration of a call has read a release written while it was
\* under way (attack was read before the write of attack, release after
\* the write of release), the first sample was computed with the default
\* volume and this one reads a written volume, and another set_parameter is in flight.
C13_Witness ==
    /\ pc = "render"
    /\ Len(loaded) = Len(LoadOrder)
    /\ loaded[1] = DefaultParams.attack
    /\ params.attack = R(1, 4)
    /\ loaded[4] = R(1, 4)
    /\ loaded[5] = R(1, 4)
    /\ sample_idx = 1
    /\ buffer[0][0][4] = DefaultParams.volume
    /\ arg # NoValue

(* ------------------------------------------------------------------ *)
(* The plugin under a host that runs at its own sample rate            *)
(* ------------------------------------------------------------------ *)

\* Sample rates of the host, in Hz: the rate of the default and another one.
HostRates == {DefaultSampleRate, 48000}

\* The state after new under a host of any of these rates. The plugin
\* does not override set_sample_rate, so the rate of the host reaches no
\* field of the plugin.
InitHost ==
    /\ sample_rate = FromInt(DefaultSampleRate)
    /\ time = Zero
    /\ note = 0
    /\ gate = FALSE
    /\ params = DefaultParams
    /\ pc = "created"
    /\ ev_count = 0
    /\ last_event = NoEvent
    /\ samples = 0
    /\ per_sample = Zero
    /\ sample_idx = 0
    /\ buffer = NoBuffer
    /\ envelope = NoValue
    /\ time0 = Zero
    /\ last_on = <<>>
    /\ off_after = FALSE
    /\ since_on = 0
    /\ host_rate \in HostRates
    /\ loaded = NoValue
    /\ written = NoWrites
    /\ arg = NoValue
    /\ result = NoValue

SpecHost == InitHost /\ [][Next]_vars

\* C14: after init the sample rate of the voice is the rate of the host,
\* and the time step of every process call is 1 / (rate of the host).
C14_AsStated ==
    /\ (pc # "created") => sample_rate = FromInt(host_rate)
    /\ (pc = "render") => per_sample = R(1, host_rate)

\* What the code does instead: after init the rate is 44100 whatever the
\* host runs at, and so is the time step of a process call.
C14_RateIsAlwaysDefault ==
    /\ sample_rate = FromInt(DefaultSampleRate)
    /\ (pc = "render") => per_sample = R(1, DefaultSampleRate)

\* A process call under a host at 48000 Hz steps by 1/44100.
C14_Witness ==
    /\ pc = "render"
    /\ host_rate = 48000
    /\ per_sample = R(1, DefaultSampleRate)
    /\ sample_idx > 0

(* ------------------------------------------------------------------ *)
(* The frequency mapper on its own                                     *)
(* ------------------------------------------------------------------ *)

\* Every value of the u8 the dispatcher stores in the voice.
NoteBytes == 0 .. 255

\* The two ways a build treats an integer overflow: a debug build checks
\* it and panics, a release build wraps.
Builds == {"debug", "release"}

\* midi_note_to_freq as a build runs it: no value on a panic, otherwise
\* the frequency.
run_midi_note_to_freq(n, build) ==
    IF sub_overflows(n) /\ build = "debug"
    THEN NoValue
    ELSE <<midi_note_to_freq(n)>>

InitFreq ==
    /\ sample_rate = FromInt(DefaultSampleRate)
    /\ time = Zero
    /\ note = 0
    /\ gate = FALSE
    /\ params = DefaultParams
    /\ pc = "freq"
    /\ ev_count = 0
    /\ last_event = NoEvent
    /\ samples = 0
    /\ per_sample = Zero
    /\ sample_idx = 0
    /\ buffer = NoBuffer
    /\ envelope = NoValue
    /\ time0 = Zero
    /\ last_on = <<>>
    /\ off_after = FALSE
    /\ since_on = 0
    /\ host_rate = DefaultSampleRate
    /\ loaded = NoValue
    /\ written = NoWrites
    /\ arg \in NoteBytes \X Builds
    /\ result = NoValue

\* self.midi_note_to_freq(note) on the note byte of arg.
EvalFreq ==
    /\ pc = "freq"
    /\ pc' = "freq_done"
    /\ result' = run_midi_note_to_freq(arg[1], arg[2])
    /\ UNCHANGED <<voice, params, ev_count, last_event, render, history,
                   since_on, host_rate, loaded, written, arg>>

NextFreq == EvalFreq

SpecFreq == InitFreq /\ [][NextFreq]_vars

FreqDone == pc = "freq_done"

\* The range of i8.
I8 == -128 .. 127

\* C15: for every note byte 0..255 the subtraction (note as i8) - 69 stays
\* within -128..127 and the mapper returns a frequency: no overflow, no
\* crash.
C15_AsStated ==
    FreqDone => /\ (as_i8(arg[1]) - A4_NOTE) \in I8
                /\ result # NoValue

\* What the code does instead: the subtraction leaves the range of i8
\* exactly for the note bytes 128..196; there a checked build panics and a
\* wrapping build goes on with the difference plus 256.
C15_OverflowRange ==
    FreqDone =>
        /\ ((as_i8(arg[1]) - A4_NOTE) \notin I8) <=> (arg[1] \in 128 .. 196)
        /\ (result = NoValue) <=> (arg[1] \in 128 .. 196 /\ arg[2] = "debug")
        /\ (arg[1] \in 128 .. 196 /\ arg[2] = "release")
              => result = <<[oct |-> (arg[1] - A4_NOTE) \div 12,
                             step |-> (arg[1] - A4_NOTE) % 12]>>

\* Note byte 128 in a checked build: the mapper has panicked.
C15_Witness ==
    /\ FreqDone
    /\ arg = <<128, "debug">>
    /\ result = NoValue

RECURSIVE Pow2(_)
Pow2(k) == IF k = 0 THEN 1 ELSE 2 * Pow2(k - 1)

\* The frequency in Hz where it is rational: on the notes a whole number
\* of octaves from A4.
Hz(f) ==
    IF f.step # 0 THEN NaN
    ELSE IF f.oct >= 0 THEN FromInt(A4_FREQ * Pow2(f.oct))
    ELSE R(A4_FREQ, Pow2(-f.oct))

\* Twice a frequency: one octave up.
Double(f) == [f EXCEPT !.oct = @ + 1]

\* C17: note 69 maps to 440 Hz, note 81 to 880 Hz, note 57 to 220 Hz, and
\* for every note n with n and n + 12 in 0..127 the frequency of n + 12 is
\* twice the frequency of n.
C17_ReferencedToA4 ==
    (FreqDone /\ arg[1] \in 0 .. 127)
        => /\ result # NoValue
           /\ (arg[1] = A4_NOTE) => Hz(result[1]) = FromInt(A4_FREQ)
           /\ (arg[1] = 81) => Hz(result[1]) = FromInt(880)
           /\ (arg[1] = 57) => Hz(result[1]) = FromInt(220)
           /\ (arg[1] + 12 <= 127)
                 => run_midi_note_to_freq(arg[1] + 12, arg[2]) = <<Double(result[1])>>

\* The mapper has returned 220 Hz for note 57, and twice that for note 69.
C17_Witness ==
    /\ FreqDone
    /\ arg[1] = 57
    /\ result # NoValue
    /\ Hz(result[1]) = FromInt(220)
    /\ Hz(midi_note_to_freq(arg[1] + 12)) = FromInt(A4_FREQ)

(* ------------------------------------------------------------------ *)
(* The release tail of a long note, with time stepped as an f32        *)
(* ------------------------------------------------------------------ *)

\* Bits of the significand of an f32, the type of time.
MantissaBits == 24

\* Grid points below 512 s from which this specification starts.
LiveStart == 4

\* The power of two above t, for t >= 1: 2^(e+1) where 2^e <= t < 2^(e+1).
RECURSIVE BinadeTop(_, _)
BinadeTop(t, p) == IF RLt(t, FromInt(p)) THEN p ELSE BinadeTop(t, 2 * p)

\* The distance between t >= 1 and the next f32 above it.
Ulp(t) == R(BinadeTop(t, 2), Pow2(MantissaBits))

\* The whole number nearest to q >= 0, the even one on a tie.
RoundNearestEven(q) ==
    LET fl == q[1] \div q[2]
        rem == q[1] - fl * q[2]
    IN  IF 2 * rem < q[2] THEN fl
        ELSE IF 2 * rem > q[2] THEN fl + 1
        ELSE IF fl % 2 = 0 THEN fl ELSE fl + 1

\* self.time += per_sample in f32, for a time t >= 1 that is an f32 and a
\* step below 1: the sum rounded to the nearest f32. The step is the f32
\* nearest to 1 / sample_rate, within 2^-25 of it; the step over the grid
\* of t is nowhere near a tie here, so the exact quotient rounds alike.
advance_f32(t, per) ==
    LET g == Ulp(t)
    IN  RAdd(t, RMul(FromInt(RoundNearestEven(RDiv(per, g))), g))

\* Times of a note held for almost 512 s: two neighbouring f32 values,
\* LiveStart grid points below 512 and one more.
LiveTimes == {RSub(FromInt(512), R(k, 32768)) : k \in LiveStart .. LiveStart + 1}

\* Release times: the default, 512 s and 1000 s.
LiveReleases == {DefaultParams.release, FromInt(512), FromInt(1000)}

\* The plugin after a note-on of note 60, a long stretch of rendering and
\* the note-off of note 60. No event follows.
InitLive ==
    /\ sample_rate = FromInt(DefaultSampleRate)
    /\ time \in LiveTimes
    /\ note = 60
    /\ gate = FALSE
    /\ \E r \in LiveReleases : params = [DefaultParams EXCEPT !.release = r]
    /\ pc = "idle"
    /\ ev_count = 0
    /\ last_event = NoEvent
    /\ samples = 0
    /\ per_sample = Zero
    /\ sample_idx = 0
    /\ buffer = NoBuffer
    /\ envelope = NoValue
    /\ time0 = Zero
    /\ last_on = <<60>>
    /\ off_after = TRUE
    /\ since_on = 0
    /\ host_rate = DefaultSampleRate
    /\ loaded = NoValue
    /\ written = NoWrites
    /\ arg = NoValue
    /\ result = NoValue

\* The host calls process on a buffer of n samples.
LiveBegin(n) ==
    /\ pc = "idle"
    /\ pc' = "render"
    /\ per_sample' = time_per_sample(sample_rate)
    /\ samples' = n
    /\ sample_idx' = 0
    /\ buffer' = HostBuffer(n)
    /\ envelope' = NoValue
    /\ time0' = time
    /\ UNCHANGED <<voice, params, ev_count, last_event, history, since_on, aux>>

\* One iteration of the sample loop with the time step taken in f32.
LiveSample ==
    /\ pc = "render"
    /\ sample_idx < samples
    /\ buffer' = render_sample(buffer, sample_idx, time, note, gate, params)
    /\ envelope' = loop_envelope(envelope, time, gate, params)
    /\ time' = advance_f32(time, per_sample)
    /\ sample_idx' = sample_idx + 1
    /\ UNCHANGED <<sample_rate, note, gate, params, pc, ev_count, last_event,
                   samples, per_sample, time0, history, since_on, aux>>

NextLive ==
    \/ \E n \in 0 .. MaxSamples : LiveBegin(n)
    \/ LiveSample
    \/ ProcessEnd

\* Rendering continues: every call of process runs to its end, and samples
\* keep being processed.
SpecLive ==
    /\ InitLive
    /\ [][NextLive]_vars
    /\ WF_vars(ProcessEnd)
    /\ []<><<LiveSample>>_vars

\* The Silent stage: gate off, time past the release.
Silent == ~gate /\ RLe(params.release, time)

\* C16: after the note-off that cleared the gate, with rendering going on
\* and no further note-on, the envelope reaches the Silent stage whatever
\* the finite release, and stays there until the next note-on.
C16_AsStated == (~gate) ~> [](Silent \/ gate)

\* What the code does instead: at 512 s the step 1/44100 is less than half
\* the distance to the next f32, so a rendered sample leaves time at 512;
\* Silent is reached, and kept, exactly for a release of at most 512 s.
C16_SilentUpToStall ==
    /\ [](RLe(time, FromInt(512)))
    /\ (~gate /\ RLe(params.release, FromInt(512))) ~> []Silent
    /\ [](RLt(FromInt(512), params.release) => ~Silent)

\* A sample was rendered at 512 s with a release of 1000 s: time has not
\* moved and the stage is still Release.
C16_Witness ==
    /\ pc = "render"
    /\ sample_idx > 0
    /\ time0 = FromInt(512)
    /\ time = FromInt(512)
    /\ params.release = FromInt(1000)
    /\ ~Silent

(* ------------------------------------------------------------------ *)
(* Claims on the order of the loop body and on the dispatcher          *)
(* ------------------------------------------------------------------ *)

\* k sample periods.
Periods(k) == RMul(FromInt(k), time_per_sample(sample_rate))

HeldStages(t, p) == {RDiv(t, p.attack), DecayRamp(t, p), p.sustain}

\* C19: process evaluates the envelope only with the gate on, so every
\* envelope factor in a written sample is the result of the Attack, Decay
\* or Sustain stage; with the gate off an iteration evaluates no envelope
\* and writes nothing, so from the first block after the gate was cleared
\* the buffers stay as the host gave them.
C19_NoReleaseValueWritten ==
    /\ [][SampleStep
           => IF gate
              THEN /\ envelope' = <<apply_envelope(time, TRUE, params)>>
                   /\ envelope'[1] \in HeldStages(time, params)
                   /\ \A c \in Channels :
                         buffer'[c][sample_idx][3] = envelope'[1]
              ELSE /\ envelope' = envelope
                   /\ buffer' = buffer]_vars
    /\ []((pc = "render" /\ ~gate)
           => /\ envelope = NoValue
              /\ buffer = HostBuffer(samples))
    /\ [][ProcessStep => gate' = gate]_vars

\* The first block after a note-off, within the release time: it has run
\* through two or more positions, evaluated no envelope and written nothing.
C19_Witness ==
    /\ pc = "render"
    /\ ~gate
    /\ off_after
    /\ RLt(Zero, time0)
    /\ RLt(time, params.release)
    /\ samples >= 2
    /\ sample_idx = samples
    /\ envelope = NoValue
    /\ buffer = HostBuffer(samples)

\* The fields of the voice that the dispatcher can write.
Triggered == <<note, gate, time>>

\* C20: process_events changes the voice only on a MIDI event whose status
\* byte is exactly 144 or 128: an event of another kind and a MIDI event
\* of another status byte (145, 129) leave note, gate and time unchanged,
\* and a status-144 event of velocity 0 is a note-on (the gate is on after
\* it), not a note-off.
C20_OnlyExactStatuses ==
    [][DispatchStep
        => LET e == last_event'
           IN  /\ (e.kind # "midi") => UNCHANGED Triggered
               /\ (e.kind = "midi" /\ e.data[1] \notin {NOTE_ON_STATUS, NOTE_OFF_STATUS})
                     => UNCHANGED Triggered
               /\ (e.kind = "midi" /\ e.data[1] = NOTE_ON_STATUS /\ e.data[3] = 0)
                     => (gate' /\ note' = e.data[2] /\ time' = Zero)
               /\ UNCHANGED <<sample_rate, params>>]_vars

\* Note 61 is sounding and has been rendered, and a note-off of note 61 on
\* channel 2 (status 129) has left note, gate and time as they were.
C20_Witness ==
    /\ pc = "events"
    /\ last_event = MidiEvent(129, 61, 0)
    /\ note = 61
    /\ gate
    /\ last_on = <<61>>
    /\ RLt(Zero, time)

====
